---- MODULE Spec2Model ----
(***************************************************************************)
(* Model of src/src/components/FirebaseTest.tsx: the FirebaseTest React    *)
(* component (connection probe, insert / clear commands, live              *)
(* subscription effect) together with the Firestore collection "projects"  *)
(* it talks to.                                                            *)
(*                                                                         *)
(* Granularity.  One action is one turn of the JavaScript event loop as    *)
(* the component sees it: a click handler up to its first await, or the    *)
(* continuation that runs when an awaited call settles, up to the next     *)
(* await.  The state updates of one turn are committed in one render, and  *)
(* the [status] effect (cleanup of the previous run, then the new run) is  *)
(* part of the turn that changed status.  State setters called after the   *)
(* component was unmounted change nothing.                                 *)
(***************************************************************************)
EXTENDS Integers, Sequences, FiniteSets, TLC

VARIABLES
    mounted,         \* the component instance is mounted
    status,          \* useState line 24
    message,         \* useState line 25
    testProjects,    \* useState line 26
    isLoading,       \* useState line 27
    realTimeStatus,  \* useState line 126
    unsubscribe,     \* `let unsubscribe` of the current effect run (0 = undefined)
    store,           \* the "projects" collection, ordered by createdAt desc
    clock,           \* Date.now(), in units that separate two inserts
    probes,          \* getDocs calls of user-clicked probes in flight
    cmds,            \* add / clear commands in flight
    subs,            \* the listeners onSnapshot returned, by handle
    ev               \* the last turn taken (observation only)

vars == <<mounted, status, message, testProjects, isLoading, realTimeStatus,
          unsubscribe, store, clock, probes, cmds, subs, ev>>

----------------------------------------------------------------------------
(* Bounds *)

\* inserts the user performs in one run
MaxInserts == 1
\* user-clicked probes in flight at once
MaxProbes == 1

----------------------------------------------------------------------------
(* Data: documents, names, projects *)

\* `Test Project ${Date.now()}`: the decimal rendering of a number
Digit(n) ==
    CASE n = 0 -> "0" [] n = 1 -> "1" [] n = 2 -> "2" [] n = 3 -> "3"
      [] n = 4 -> "4" [] n = 5 -> "5" [] n = 6 -> "6" [] n = 7 -> "7"
      [] n = 8 -> "8" [] OTHER -> "9"

\* a name is its sequence of words
TestNameMutConst(t) == <<"Test", "Project", Digit(0)>>
TestName(t) == <<"Test", "Project", Digit(t)>>

\* the literal the clear command looks for
SamplePrefix == <<"Test", "Project">>

\* String.prototype.includes
Includes(s, p) ==
    \E i \in 0..(Len(s) - Len(p)) : SubSeq(s, i + 1, i + Len(p)) = p

\* A stored document: its document id, its name field, and its data's own
\* `id` field (-1: the data has no such field, 0: the field is empty).
Doc(i, nm, f) == [id |-> i, name |-> nm, idf |-> f]

\* docs.map(doc => ({ id: doc.id, ...doc.data() })): a data field named id
\* overrides the document id
ToProject(d) == [id |-> IF d.idf = -1 THEN d.id ELSE d.idf, name |-> d.name]

ToProjects(ds) == [k \in 1..Len(ds) |-> ToProject(ds[k])]

\* the document addDoc creates for the n-th insert
NewDocId(t) == 10 + t

\* a store that orders by createdAt desc shows the newest document first
InsertDoc(d, s) == <<d>> \o s

RECURSIVE RemoveId(_, _)
RemoveId(s, i) ==
    IF s = <<>> THEN <<>>
    ELSE IF Head(s).id = i THEN RemoveId(Tail(s), i)
    ELSE <<Head(s)>> \o RemoveId(Tail(s), i)

\* deleteDoc(doc(db, "projects", id)); deleting an absent id succeeds
DeleteDocMutFirst(s, i) == IF s = <<>> THEN s ELSE Tail(s)
DeleteDoc(s, i) == RemoveId(s, i)

RECURSIVE FilterSeq(_, _)
FilterSeq(s, p) ==
    IF s = <<>> THEN <<>>
    ELSE IF Includes(Head(s).name, p) THEN <<Head(s)>> \o FilterSeq(Tail(s), p)
    ELSE FilterSeq(Tail(s), p)

\* testProjects.filter(p => p.name.includes("Test Project"))
ProjectsToDeleteMutAll(tp) == tp
ProjectsToDelete(tp) == FilterSeq(tp, SamplePrefix)

\* the loop's `if (project.id)`: advance to the next project that has an id
RECURSIVE SkipNoId(_)
SkipNoId(s) ==
    IF s = <<>> THEN <<>>
    ELSE IF Head(s).id # 0 THEN s
    ELSE SkipNoId(Tail(s))

RemoveAt(s, i) == SubSeq(s, 1, i - 1) \o SubSeq(s, i + 1, Len(s))

\* what the collection may hold when the component is mounted
InitStores ==
    { <<>>,
      <<Doc(2, TestName(0), -1), Doc(1, <<"Dashboard">>, -1)>>,
      <<Doc(3, <<"Old", "Test", "Project">>, 0)>> }

----------------------------------------------------------------------------
(* Messages (setMessage arguments) *)

Msg(k, n) == [k |-> k, n |-> n]
MsgNone == Msg("", 0)
MsgTesting == Msg("Testing Firebase connection...", 0)
\* `Firebase connected! Found ${querySnapshot.docs.length} projects`
MsgConnectedMutOne(n) == Msg("Firebase connected! Found n projects", 1)
MsgConnected(n) == Msg("Firebase connected! Found n projects", n)
MsgConnFailed == Msg("Firebase connection failed", 0)
MsgAdding == Msg("Adding test project...", 0)
MsgAddFailed == Msg("Failed to add test project", 0)
MsgClearing == Msg("Clearing test data...", 0)
MsgClearFailed == Msg("Failed to clear test data", 0)

----------------------------------------------------------------------------
(* In-flight calls *)

NoDoc == Doc(0, <<>>, -1)

\* a command in flight: where it is suspended (pc) and what it holds
Cmd(o, p, d, td, dl, cnt, rs, ro) ==
    [op |-> o, pc |-> p, doc |-> d, todo |-> td, del |-> dl, n |-> cnt,
     res |-> rs, rok |-> ro]
NoCmd == Cmd("none", "none", NoDoc, <<>>, <<>>, 0, <<>>, FALSE)

\* the last turn: what ran, whether its call succeeded, the command it
\* belonged to, whether onSnapshot threw in it
Ev(o, k, c, th) == [op |-> o, ok |-> k, cmd |-> c, threw |-> th]

\* a getDocs call: sent, then answered by the store (ok / fail), then resolved
SentProbe == [st |-> "sent", res |-> <<>>]
ReadProbe(ok) ==
    IF ok THEN [st |-> "ok", res |-> ToProjects(store)]
    ELSE [st |-> "fail", res |-> <<>>]

----------------------------------------------------------------------------
(* The [status] effect, lines 128-164 *)

\* A listener: live, errored (its error callback ran) or closed
\* (unsubscribed); pend: a snapshot is owed to it; rel: how many times its
\* unsubscribe function was called.
NewSub == [st |-> "live", pend |-> TRUE, rel |-> 0]

\* the smallest handle not in use
FreshHandle(ss) ==
    CHOOSE h \in 1..(Cardinality(DOMAIN ss) + 1) :
        h \notin DOMAIN ss /\ \A g \in 1..(h - 1) : g \in DOMAIN ss

\* A listener that was unsubscribed once and that no effect run holds any
\* more can never be touched again: it is dropped from the table.
Settled(ss, u) ==
    {h \in DOMAIN ss : ss[h].st = "closed" /\ ss[h].rel = 1 /\ h # u}
Prune(ss, u) == [h \in DOMAIN ss \ Settled(ss, u) |-> ss[h]]

\* the cleanup: if (unsubscribe) unsubscribe()
CleanupMutLeak(u, ss) == ss
Cleanup(u, ss) ==
    IF u # 0
    THEN [ss EXCEPT ![u] = [st |-> "closed", pend |-> FALSE, rel |-> @.rel + 1]]
    ELSE ss

\* if (status === "success")
ShouldSubscribeMutAlways(st) == st # "idle"
ShouldSubscribe(st) == st = "success"

\* testRealTime(): onSnapshot returns a handle, or throws into the catch
TestRealTimeMutTwice(ss, rt, throws) ==
    IF throws
    THEN [subs |-> ss, unsub |-> 0, rt |-> "disconnected"]
    ELSE LET h == FreshHandle(ss) IN
         [subs |-> [g \in DOMAIN ss \cup {h, h + 1} |->
                        IF g \in {h, h + 1} THEN NewSub ELSE ss[g]],
          unsub |-> h + 1, rt |-> rt]
TestRealTime(ss, rt, throws) ==
    IF throws
    THEN [subs |-> ss, unsub |-> 0, rt |-> "disconnected"]
    ELSE LET h == FreshHandle(ss) IN
         [subs |-> [g \in DOMAIN ss \cup {h} |-> IF g = h THEN NewSub ELSE ss[g]],
          unsub |-> h, rt |-> rt]

\* the cleanup calls unsubscribe() and no state setter
RealTimeAfterCleanupMutReset(rt) == "idle"
RealTimeAfterCleanup(rt) == rt

\* React re-runs the effect when, and only when, status changed
RunEffect(ss, new, throws) ==
    IF new = status
    THEN [subs |-> ss, unsub |-> unsubscribe, rt |-> realTimeStatus]
    ELSE LET cleaned == Cleanup(unsubscribe, Prune(ss, unsubscribe))
             rt == RealTimeAfterCleanup(realTimeStatus)
         IN  IF ShouldSubscribe(new)
             THEN TestRealTime(cleaned, rt, throws)
             ELSE [subs |-> cleaned, unsub |-> 0, rt |-> rt]

\* a change of the collection is owed to every live listener
Mark(ss, changed) ==
    [h \in DOMAIN ss |->
        IF changed /\ ss[h].st = "live" THEN [ss[h] EXCEPT !.pend = TRUE] ELSE ss[h]]

\* this turn's effect run would call onSnapshot
WillSubscribe(new) == mounted /\ new # status /\ ShouldSubscribe(new)
Throws(new) == IF WillSubscribe(new) THEN BOOLEAN ELSE {FALSE}

\* setTestProjects(projects)
SetTestProjectsMutAppend(prev, next) == prev \o next
SetTestProjects(prev, next) == next

\* the catch blocks of addTestData and clearTestData call setMessage only
StatusAfterCatchMutError(st) == "error"
StatusAfterCatch(st) == st

\* the finally blocks of addTestData and clearTestData: setIsLoading(false),
\* whether the try block completed (ok) or threw
LoadingAfterFinallyMutTryOnly(ok) == ~ok
LoadingAfterFinally(ok) == FALSE

\* One render: the turn's state updates, then the effect.
Commit(st, msg, tp, ld, changed, throws) ==
    IF mounted
    THEN /\ status' = st
         /\ message' = msg
         /\ testProjects' = tp
         /\ isLoading' = ld
         /\ LET e == RunEffect(Mark(subs, changed), st, throws) IN
              /\ subs' = e.subs
              /\ unsubscribe' = e.unsub
              /\ realTimeStatus' = e.rt
    ELSE /\ subs' = Mark(subs, changed)
         /\ UNCHANGED <<status, message, testProjects, isLoading, unsubscribe,
                        realTimeStatus>>

Idle == UNCHANGED <<status, message, testProjects, isLoading, unsubscribe,
                    realTimeStatus, subs>>

\* the model lets the user start a probe while fewer than MaxProbes of
\* their probes are in flight
Budget == Len(probes) < MaxProbes

----------------------------------------------------------------------------
(* Buttons, lines 187-209 *)

TestDisabled == status = "testing"

AddDisabledMutNoBusy == status # "success"
AddDisabledMutNoStatus == isLoading
AddDisabled == status # "success" \/ isLoading

ClearDisabled == status # "success" \/ isLoading \/ Len(testProjects) = 0

----------------------------------------------------------------------------
(* State machine *)

Init ==
    /\ mounted = TRUE
    /\ status = "idle"
    /\ message = MsgNone
    /\ testProjects = <<>>
    /\ isLoading = FALSE
    /\ realTimeStatus = "idle"
    /\ unsubscribe = 0
    /\ store \in InitStores
    /\ clock = 1
    /\ probes = <<>>
    /\ cmds = <<>>
    /\ subs = <<>>
    /\ ev = Ev("init", TRUE, NoCmd, FALSE)

\* click on "Test Connection": testConnection() up to `await getDocs`
ClickTest ==
    /\ mounted
    /\ ~TestDisabled
    /\ Budget
    /\ probes' = Append(probes, SentProbe)
    /\ Commit("testing", MsgTesting, testProjects, isLoading, FALSE, FALSE)
    /\ ev' = Ev("clickTest", TRUE, NoCmd, FALSE)
    /\ UNCHANGED <<mounted, store, clock, cmds>>

\* the store answers a user probe's getDocs
ProbeRead(i) ==
    /\ probes[i].st = "sent"
    /\ \E ok \in BOOLEAN :
         /\ probes' = [probes EXCEPT ![i] = ReadProbe(ok)]
         /\ ev' = Ev("probeRead", ok, NoCmd, FALSE)
    /\ Idle
    /\ UNCHANGED <<mounted, store, clock, cmds>>

\* testConnection() after `await getDocs`: lines 39-47, or the catch 49-53
ProbeDone(i) ==
    /\ probes[i].st \in {"ok", "fail"}
    /\ probes' = RemoveAt(probes, i)
    /\ IF probes[i].st = "ok"
       THEN \E throws \in Throws("success") :
              /\ Commit("success", MsgConnected(Len(probes[i].res)),
                        SetTestProjects(testProjects, probes[i].res),
                        isLoading, FALSE, throws)
              /\ ev' = Ev("probeDone", TRUE, NoCmd, throws)
       ELSE /\ Commit("error", MsgConnFailed, testProjects, isLoading, FALSE, FALSE)
            /\ ev' = Ev("probeDone", FALSE, NoCmd, FALSE)
    /\ UNCHANGED <<mounted, store, clock, cmds>>

\* click on "Add Test Data": addTestData() up to `await addDoc`
ClickAdd ==
    /\ mounted
    /\ IF AddDisabled
       THEN /\ ev' = Ev("clickAdd", FALSE, NoCmd, FALSE)
            /\ Idle
            /\ UNCHANGED <<cmds, clock>>
       ELSE /\ clock <= MaxInserts
            /\ LET c == Cmd("add", "insert",
                            Doc(NewDocId(clock), TestName(clock), -1),
                            <<>>, <<>>, 0, <<>>, FALSE) IN
                 /\ cmds' = Append(cmds, c)
                 /\ ev' = Ev("clickAdd", TRUE, c, FALSE)
            /\ clock' = clock + 1
            /\ Commit(status, MsgAdding, testProjects, TRUE, FALSE, FALSE)
    /\ UNCHANGED <<mounted, store, probes>>

\* addTestData never calls setTestProjects: the record sequence after an
\* acknowledged insert of d is the one before it
ProjectsAfterInsertMutAppend(tp, d) == <<ToProject(d)>> \o tp
ProjectsAfterInsert(tp, d) == tp

\* addTestData() after `await addDoc`: lines 89-90 up to `await getDocs` of
\* the refresh, or the catch and finally, lines 92-97
InsertDone(c) ==
    /\ cmds[c].pc = "insert"
    /\ \E ok \in BOOLEAN :
         IF ok
         THEN /\ store' = InsertDoc(cmds[c].doc, store)
              /\ cmds' = [cmds EXCEPT ![c].pc = "probe"]
              /\ Commit("testing", MsgTesting,
                        ProjectsAfterInsert(testProjects, cmds[c].doc),
                        isLoading, TRUE, FALSE)
              /\ ev' = Ev("insertDone", TRUE, cmds'[c], FALSE)
         ELSE /\ store' = store
              /\ cmds' = RemoveAt(cmds, c)
              /\ Commit(StatusAfterCatch(status), MsgAddFailed, testProjects,
                        LoadingAfterFinally(FALSE), FALSE, FALSE)
              /\ ev' = Ev("insertDone", FALSE, cmds[c], FALSE)
    /\ UNCHANGED <<mounted, clock, probes>>

\* `Cleared ${projectsToDelete.length} test projects`
MsgCleared(n) == Msg("Cleared n test projects", n)

\* click on "Clear Test Data": clearTestData() up to the first
\* `await deleteDoc`, or, with nothing to delete, up to the refresh's
\* `await getDocs`
ClickClear ==
    /\ mounted
    /\ ~ClearDisabled
    /\ LET sel == ProjectsToDelete(testProjects)
           todo == SkipNoId(sel)
           c == Cmd("clear", IF todo = <<>> THEN "probe" ELSE "delete",
                    NoDoc, todo, <<>>, Len(sel), <<>>, FALSE)
       IN
         /\ cmds' = Append(cmds, c)
         /\ ev' = Ev("clickClear", TRUE, c, FALSE)
         /\ IF todo = <<>>
            THEN Commit("testing", MsgTesting, testProjects, TRUE, FALSE, FALSE)
            ELSE Commit(status, MsgClearing, testProjects, TRUE, FALSE, FALSE)
    /\ UNCHANGED <<mounted, store, clock, probes>>

\* clearTestData() after an `await deleteDoc`: the next iteration, or lines
\* 114-115 up to the refresh's `await getDocs`, or the catch and finally
DeleteDone(c) ==
    /\ cmds[c].pc = "delete"
    /\ \E ok \in BOOLEAN :
         IF ok
         THEN LET id == Head(cmds[c].todo).id
                  rest == SkipNoId(Tail(cmds[c].todo))
                  after == DeleteDoc(store, id)
                  c2 == [cmds[c] EXCEPT !.todo = rest,
                                        !.del = Append(@, id),
                                        !.pc = IF rest = <<>> THEN "probe" ELSE "delete"]
              IN
                /\ store' = after
                /\ cmds' = [cmds EXCEPT ![c] = c2]
                /\ ev' = Ev("deleteDone", TRUE, c2, FALSE)
                /\ IF rest = <<>>
                   THEN Commit("testing", MsgTesting, testProjects, isLoading,
                               after # store, FALSE)
                   ELSE Commit(status, message, testProjects, isLoading,
                               after # store, FALSE)
         ELSE /\ store' = store
              /\ cmds' = RemoveAt(cmds, c)
              /\ Commit(StatusAfterCatch(status), MsgClearFailed, testProjects,
                        LoadingAfterFinally(FALSE), FALSE, FALSE)
              /\ ev' = Ev("deleteDone", FALSE, cmds[c], FALSE)
    /\ UNCHANGED <<mounted, clock, probes>>

\* the store answers the getDocs of a command's refresh
CmdProbeRead(c) ==
    /\ cmds[c].pc = "probe"
    /\ \E ok \in BOOLEAN :
         LET r == ReadProbe(ok)
             c2 == [cmds[c] EXCEPT !.pc = "probeRead", !.res = r.res, !.rok = ok]
         IN /\ cmds' = [cmds EXCEPT ![c] = c2]
            /\ ev' = Ev("cmdProbeRead", ok, c2, FALSE)
    /\ Idle
    /\ UNCHANGED <<mounted, store, clock, probes>>

\* the refresh's testConnection() after `await getDocs`, then the command's
\* finally
CmdProbeDone(c) ==
    /\ cmds[c].pc = "probeRead"
    /\ cmds' = RemoveAt(cmds, c)
    /\ IF cmds[c].rok
       THEN \E throws \in Throws("success") :
              /\ Commit("success", MsgConnected(Len(cmds[c].res)),
                        SetTestProjects(testProjects, cmds[c].res),
                        LoadingAfterFinally(TRUE), FALSE, throws)
              /\ ev' = Ev("cmdProbeDone", TRUE, cmds[c], throws)
       ELSE /\ Commit("error", MsgConnFailed, testProjects,
                      LoadingAfterFinally(TRUE), FALSE, FALSE)
            /\ ev' = Ev("cmdProbeDone", FALSE, cmds[c], FALSE)
    /\ UNCHANGED <<mounted, store, clock, probes>>

\* the onSnapshot data callback, lines 136-142
Tick(h) ==
    /\ subs[h].st = "live"
    /\ subs[h].pend
    /\ subs' = [subs EXCEPT ![h].pend = FALSE]
    /\ IF mounted
       THEN /\ realTimeStatus' = "connected"
            /\ testProjects' = SetTestProjects(testProjects, ToProjects(store))
       ELSE UNCHANGED <<realTimeStatus, testProjects>>
    /\ ev' = Ev("tick", TRUE, NoCmd, FALSE)
    /\ UNCHANGED <<mounted, status, message, isLoading, unsubscribe, store,
                   clock, probes, cmds>>

\* the error callback's setRealTimeStatus("disconnected")
RealTimeAfterErrorMutKeep(rt) == rt
RealTimeAfterError(rt) == "disconnected"

\* the error callback logs and sets realTimeStatus; it does not call
\* onSnapshot again, and the listener is dead after it
ErrorCallbackMutResubscribe(ss, h) ==
    [g \in DOMAIN ss \cup {FreshHandle(ss)} |->
        IF g = h THEN [ss[h] EXCEPT !.st = "errored", !.pend = FALSE]
        ELSE IF g \in DOMAIN ss THEN ss[g] ELSE NewSub]
ErrorCallback(ss, h) == [ss EXCEPT ![h].st = "errored", ![h].pend = FALSE]

\* the onSnapshot error callback, lines 143-146
SubError(h) ==
    /\ subs[h].st = "live"
    /\ subs' = ErrorCallback(subs, h)
    /\ realTimeStatus' =
         IF mounted THEN RealTimeAfterError(realTimeStatus) ELSE realTimeStatus
    /\ ev' = Ev("subError", FALSE, NoCmd, FALSE)
    /\ UNCHANGED <<mounted, status, message, testProjects, isLoading,
                   unsubscribe, store, clock, probes, cmds>>

\* The owning view is torn down: React runs the last effect's cleanup and
\* discards the instance.  Calls still in flight settle later, but the state
\* setters they reach change nothing any more, so they are not followed
\* past this point.
Unmount ==
    /\ mounted
    /\ mounted' = FALSE
    /\ subs' = Cleanup(unsubscribe, subs)
    /\ unsubscribe' = 0
    /\ probes' = <<>>
    /\ cmds' = <<>>
    /\ ev' = Ev("unmount", TRUE, NoCmd, FALSE)
    /\ UNCHANGED <<status, message, testProjects, isLoading, realTimeStatus,
                   store, clock>>

UserProbeRead == \E i \in 1..Len(probes) : ProbeRead(i)
UserProbeDone == \E i \in 1..Len(probes) : ProbeDone(i)
AddInsertDone == \E c \in 1..Len(cmds) : InsertDone(c)
ClearDeleteDone == \E c \in 1..Len(cmds) : DeleteDone(c)
RefreshRead == \E c \in 1..Len(cmds) : CmdProbeRead(c)
RefreshDone == \E c \in 1..Len(cmds) : CmdProbeDone(c)
SnapshotTick == \E h \in DOMAIN subs : Tick(h)
SnapshotError == \E h \in DOMAIN subs : SubError(h)

Next ==
    \/ ClickTest
    \/ UserProbeRead
    \/ UserProbeDone
    \/ ClickAdd
    \/ AddInsertDone
    \/ ClickClear
    \/ ClearDeleteDone
    \/ RefreshRead
    \/ RefreshDone
    \/ SnapshotTick
    \/ SnapshotError
    \/ Unmount

Spec == Init /\ [][Next]_vars

\* every external call a command awaits (addDoc, deleteDoc, getDocs)
\* eventually settles
FairSpec ==
    /\ Spec
    /\ WF_vars(AddInsertDone)
    /\ WF_vars(ClearDeleteDone)
    /\ WF_vars(RefreshRead)
    /\ WF_vars(RefreshDone)

----------------------------------------------------------------------------
(* Recognising turns from the two states of a step *)

\* this step resolved a user probe, or a command's refresh, whose read
\* returned r
ResolvedWith(r) ==
    \/ \E i \in 1..Len(probes) :
         probes[i].st = "ok" /\ probes[i].res = r /\ probes' = RemoveAt(probes, i)
    \/ \E c \in 1..Len(cmds) :
         /\ cmds[c].pc = "probeRead" /\ cmds[c].rok /\ cmds[c].res = r
         /\ cmds' = RemoveAt(cmds, c)

\* this step resolved a probe whose read failed
ResolvedFailed ==
    \/ \E i \in 1..Len(probes) :
         probes[i].st = "fail" /\ probes' = RemoveAt(probes, i)
    \/ \E c \in 1..Len(cmds) :
         cmds[c].pc = "probeRead" /\ ~cmds[c].rok /\ cmds' = RemoveAt(cmds, c)

ProbeResolved == mounted' /\ ev'.op \in {"probeDone", "cmdProbeDone"}

\* this step issued a getDocs call
ProbeStarted ==
    \/ Len(probes') > Len(probes)
    \/ \E c \in 1..Len(cmds') :
         cmds'[c].pc = "probe" /\ (c > Len(cmds) \/ cmds[c].pc # "probe")

----------------------------------------------------------------------------
(* C1: right after a probe resolves, status is success exactly if its read
   succeeded; then the record sequence is the set the read returned and the
   message carries its length; otherwise status is error and the record
   sequence is what it was. *)
C1_ProbeOutcome ==
    [][ProbeResolved =>
         \/ /\ ResolvedWith(testProjects')
            /\ status' = "success"
            /\ message'.k = "Firebase connected! Found n projects"
            /\ message'.n = Len(testProjects')
         \/ /\ ResolvedFailed
            /\ status' = "error"
            /\ testProjects' = testProjects]_vars

C1_Witness ==
    /\ ev.op = "probeDone" /\ ev.ok
    /\ status = "success"
    /\ Len(testProjects) = 2
    /\ message.n = 2

(* C2: a failed insert, a failed delete, a subscription error and a throwing
   onSnapshot leave status as it is (the last: as the probe set it); status
   changes only where testConnection starts or resolves, and becomes error
   only where a probe whose read failed resolves. *)
C2_StatusOnlyByProber ==
    [][/\ (ev'.op \in {"insertDone", "deleteDone"} /\ ~ev'.ok) => status' = status
       /\ ev'.op = "subError" => status' = status
       /\ ev'.threw => status' = "success"
       /\ status' # status => (ProbeStarted \/ ProbeResolved)
       /\ (status' = "error" /\ status # "error") =>
              (ProbeResolved /\ ResolvedFailed)]_vars

C2_Witness ==
    /\ ev.op = "deleteDone" /\ ~ev.ok
    /\ status = "success"
    /\ message = MsgClearFailed

(* C3: the record sequence changes only in a turn that resolves a successful
   probe read or delivers a subscription snapshot, and after such a turn it
   is exactly the snapshot that turn delivered, whatever it held before. *)
C3_LastWriteWins ==
    [][/\ testProjects' # testProjects =>
            \/ ProbeResolved /\ ResolvedWith(testProjects')
            \/ ev'.op = "tick" /\ testProjects' = ToProjects(store)
       /\ (ProbeResolved /\ ev'.ok) => ResolvedWith(testProjects')
       /\ (ev'.op = "tick" /\ mounted) => testProjects' = ToProjects(store)]_vars

\* a probe that read before a delete resolves after the listener showed the
\* delete: the older snapshot replaces the newer one
C3_Witness ==
    /\ ev.op = "probeDone" /\ ev.ok
    /\ realTimeStatus = "connected"
    /\ Len(testProjects) > Len(store)

(* C4: a command starts only while the busy flag is clear, at most one
   command is in flight, and while the component is mounted the busy flag is
   set exactly when a command is in flight. *)
C4_BusyExcludes ==
    /\ [](Len(cmds) <= 1 /\ (mounted => (isLoading <=> cmds # <<>>)))
    /\ [][Len(cmds') > Len(cmds) => ~isLoading]_vars

C4_Witness ==
    /\ isLoading
    /\ Len(cmds) = 1
    /\ cmds[1].pc = "probeRead"
    /\ Len(probes) = 1

(* C5: a click on Add Test Data while status is not success sends no insert
   and changes neither status, records, message, busy flag nor store. *)
C5_AddGuard ==
    [][(ev'.op = "clickAdd" /\ status # "success") =>
          UNCHANGED <<status, testProjects, message, isLoading, store, cmds,
                      probes, subs>>]_vars

C5_Witness ==
    /\ ev.op = "clickAdd" /\ ~ev.ok
    /\ status = "testing"

(* C6: a listener that has not been unsubscribed exists only while the
   component is mounted with status success; a listener is opened only in a
   turn that takes status to success, and every such turn opens one unless
   onSnapshot throws. *)
Opened(h) ==
    /\ subs'[h].st = "live"
    /\ h \notin DOMAIN subs \/ subs[h].st = "closed"

C6_SubscribedOnlyInSuccess ==
    /\ [](\A h \in DOMAIN subs :
            subs[h].st # "closed" => (mounted /\ status = "success"))
    /\ [][/\ (\E h \in DOMAIN subs' : Opened(h)) =>
                (status # "success" /\ status' = "success")
          /\ (mounted' /\ status # "success" /\ status' = "success") =>
                ((\E h \in DOMAIN subs' : Opened(h)) \/ ev'.threw)]_vars

\* a probe was started from success: the listener it had is closed
C6_Witness ==
    /\ ev.op = "clickTest"
    /\ status = "testing"
    /\ \E h \in DOMAIN subs : subs[h].st = "closed"

(* C7: a listener's unsubscribe function is never called twice, is called
   once by the time the effect run that opened it is cleaned up (status
   change or unmount), and a cleanup that holds no listener calls none. *)
C7_ReleasedOnce ==
    /\ [](\A h \in DOMAIN subs :
            /\ subs[h].rel <= 1
            /\ subs[h].rel = 1 <=> subs[h].st = "closed"
            /\ subs[h].rel = 0 => (mounted /\ unsubscribe = h))
    /\ [][(unsubscribe = 0 /\ (status' # status \/ ~mounted')) =>
            \A h \in DOMAIN subs \cap DOMAIN subs' :
                subs'[h].rel <= subs[h].rel]_vars

C7_Witness ==
    /\ ev.op = "unmount"
    /\ \E h \in DOMAIN subs : subs[h].rel = 1 /\ subs[h].st = "closed"

(* C8: when a delete of clearTestData fails, the deletes that succeeded
   before it stay applied (their documents are not in the store), the store
   is not touched by the failing turn, the command issues no further delete,
   the failure message is shown, status is kept and the busy flag is
   cleared; a successful delete removes exactly the document it names. *)
HasId(s, i) == \E j \in 1..Len(s) : s[j].id = i

\* s without the documents whose id is i
Without(s, i) == SelectSeq(s, LAMBDA d : d.id # i)

C8_PartialClear ==
    [][/\ (ev'.op = "deleteDone" /\ ~ev'.ok) =>
            /\ store' = store
            /\ \A k \in 1..Len(ev'.cmd.del) : ~HasId(store', ev'.cmd.del[k])
            /\ \A c \in 1..Len(cmds') : cmds'[c].pc # "delete"
            /\ message' = [k |-> "Failed to clear test data", n |-> 0]
            /\ status' = status
            /\ isLoading' = FALSE
       /\ (ev'.op = "deleteDone" /\ ev'.ok) =>
            /\ ev'.cmd.del # <<>>
            /\ store' = Without(store, ev'.cmd.del[Len(ev'.cmd.del)])]_vars

\* the second delete failed after the first one removed its document
C8_Witness ==
    /\ ev.op = "deleteDone" /\ ~ev.ok
    /\ Len(ev.cmd.del) = 1
    /\ Len(ev.cmd.todo) = 1
    /\ HasId(store, ev.cmd.todo[1].id)
    /\ ~isLoading
    /\ status = "success"

\* how many records of s carry the name nm
CountName(s, nm) == Cardinality({k \in 1..Len(s) : s[k].name = nm})

(* C9: when an insert succeeded and its refresh read succeeded, the record
   sequence the refresh installs holds the inserted name exactly once. *)
C9_InsertedOnce ==
    [][(ev'.op = "cmdProbeDone" /\ ev'.ok /\ ev'.cmd.op = "add" /\ mounted') =>
          CountName(testProjects', ev'.cmd.doc.name) = 1]_vars

C9_Witness ==
    /\ ev.op = "cmdProbeDone" /\ ev.ok
    /\ ev.cmd.op = "add"
    /\ Len(testProjects) = 3
    /\ testProjects[1].name = ev.cmd.doc.name

(* C10: clearTestData started on a record sequence without a name that
   contains the sample prefix issues no delete, goes straight to its refresh
   probe, and leaves the store as it is for as long as it runs. *)
NoMatch(tp) == \A k \in 1..Len(tp) : ~Includes(tp[k].name, <<"Test", "Project">>)

C10_ClearNothing ==
    [][/\ (ev'.op = "clickClear" /\ NoMatch(testProjects)) =>
            /\ ev'.cmd.pc = "probe"
            /\ ev'.cmd.n = 0
            /\ ProbeStarted
            /\ status' = "testing"
            /\ store' = store
       /\ (ev'.cmd.op = "clear" /\ ev'.cmd.n = 0) =>
            /\ ev'.op \in {"clickClear", "cmdProbeRead", "cmdProbeDone"}
            /\ ev'.cmd.del = <<>>
            /\ store' = store]_vars

C10_Witness ==
    /\ ev.op = "cmdProbeDone" /\ ev.ok
    /\ ev.cmd.op = "clear"
    /\ ev.cmd.n = 0
    /\ store # <<>>
    /\ testProjects = ToProjects(store)

(* C11: every snapshot a listener delivers sets realTimeStatus to connected
   and makes the record sequence that snapshot; a listener's error sets
   realTimeStatus to disconnected and leaves the record sequence, so the
   sequence stays the last snapshot delivered. *)
C11_TicksThenError ==
    [][/\ (ev'.op = "tick" /\ mounted) =>
            /\ realTimeStatus' = "connected"
            /\ testProjects' = ToProjects(store)
            /\ status' = status
       /\ ev'.op = "subError" =>
            /\ realTimeStatus' = "disconnected"
            /\ testProjects' = testProjects
            /\ \A h \in DOMAIN subs' : subs'[h].st # "live"]_vars

\* a clear is between its two deletes: the listener showed the collection
\* as mounted with (A), then without the first deleted document (B), then
\* failed
C11_Witness ==
    /\ ev.op = "subError"
    /\ realTimeStatus = "disconnected"
    /\ status = "success"
    /\ Len(cmds) = 1 /\ cmds[1].pc = "delete" /\ Len(cmds[1].del) = 1
    /\ testProjects = ToProjects(store)
    /\ \E h \in DOMAIN subs : subs[h].st = "errored"

(* C12: while a getDocs call of testConnection is in flight status is
   testing; status becomes success or error only where a probe resolves,
   and never becomes idle again. *)
\* the getDocs calls in flight: of user probes and of commands' refreshes
CmdProbes == {c \in 1..Len(cmds) : cmds[c].pc \in {"probe", "probeRead"}}
NProbes == Len(probes) + Cardinality(CmdProbes)

C12_TestingUntilResolved ==
    /\ []((mounted /\ NProbes > 0) => status = "testing")
    /\ [][/\ (status' # status /\ status' \in {"success", "error"}) => ProbeResolved
          /\ status' = "idle" => status = "idle"]_vars

(* C13: a clearTestData run without a failing delete calls deleteDoc for
   exactly the records of the record sequence, as it was at the click, whose
   name contains the sample prefix and which have an id, in sequence order,
   one call at a time; each call removes only the document it names; the
   count of its completion message is the number of deletes performed; and
   it then starts one refresh probe. *)
\* the ids of the records of tp that match and have an id, in order
RECURSIVE MatchingIds(_)
MatchingIds(tp) ==
    IF tp = <<>> THEN <<>>
    ELSE IF Includes(Head(tp).name, <<"Test", "Project">>) /\ Head(tp).id # 0
         THEN <<Head(tp).id>> \o MatchingIds(Tail(tp))
         ELSE MatchingIds(Tail(tp))

RECURSIVE IdsWithId(_)
IdsWithId(tp) ==
    IF tp = <<>> THEN <<>>
    ELSE IF Head(tp).id # 0 THEN <<Head(tp).id>> \o IdsWithId(Tail(tp))
         ELSE IdsWithId(Tail(tp))

\* the deletes a clear command has made and has still to make
Planned(c) == c.del \o IdsWithId(c.todo)

C13_ClearDeletesMatches ==
    [][/\ ev'.op = "clickClear" =>
            /\ Planned(ev'.cmd) = MatchingIds(testProjects)
            /\ ev'.cmd.del = <<>>
       /\ (ev'.op = "deleteDone" /\ ev'.ok) =>
            /\ \E c \in 1..Len(cmds) :
                 /\ cmds[c].pc = "delete"
                 /\ Planned(ev'.cmd) = Planned(cmds[c])
                 /\ Len(ev'.cmd.del) = Len(cmds[c].del) + 1
            /\ store' = Without(store, ev'.cmd.del[Len(ev'.cmd.del)])
       /\ (ev'.cmd.op = "clear" /\ ev'.cmd.pc = "probe") =>
            /\ ev'.cmd.todo = <<>>
            /\ ev'.cmd.n = Len(ev'.cmd.del)
            /\ ProbeStarted]_vars

(* C14: an acknowledged insert starts the refresh's getDocs in the same
   turn, with the document already stored, and leaves the record sequence
   alone; the busy flag stays set until that refresh resolves, after which
   the command reads no more; a failed insert starts no probe and leaves
   record sequence and store alone. *)
C14_InsertThenRefresh ==
    /\ [](\A c \in 1..Len(cmds) :
            (mounted /\ cmds[c].op = "add") => isLoading)
    /\ [][/\ (ev'.op = "insertDone" /\ ev'.ok) =>
               /\ testProjects' = testProjects
               /\ HasId(store', ev'.cmd.doc.id)
               /\ ev'.cmd.pc = "probe"
               /\ ProbeStarted
          /\ (ev'.op = "insertDone" /\ ~ev'.ok) =>
               /\ ~ProbeStarted
               /\ testProjects' = testProjects
               /\ store' = store
               /\ cmds' = <<>>
          /\ (ev'.op = "cmdProbeDone" /\ ev'.cmd.op = "add") =>
               /\ ~ProbeStarted
               /\ isLoading /\ ~isLoading'
               /\ cmds' = <<>>]_vars

\* the insert is acknowledged and the refresh is in flight; the record
\* sequence does not hold the new record yet
C14_Witness ==
    /\ ev.op = "insertDone" /\ ev.ok
    /\ isLoading
    /\ status = "testing"
    /\ HasId(store, ev.cmd.doc.id)
    /\ ~HasId(testProjects, ev.cmd.doc.id)
    /\ testProjects # <<>>

(* C15: if every awaited call settles, a command that was started finishes
   (or the component is unmounted), whichever of its calls fail, and when it
   has finished the busy flag is clear. *)
C15_CommandsFinish ==
    /\ [](cmds # <<>> => <>(cmds = <<>> /\ (mounted => ~isLoading)))
    /\ []((mounted /\ cmds = <<>>) => ~isLoading)

\* the refresh of a command failed and the command still finished
C15_Witness ==
    /\ ev.op = "cmdProbeDone" /\ ~ev.ok
    /\ status = "error"
    /\ cmds = <<>>
    /\ ~isLoading

(* C16: while a listener that failed is still held, no listener is live; a
   listener is opened only by a probe that resolves with success from a
   status other than success; and the turn in which a probe resolves with
   failure issues no getDocs call and opens no listener. *)
C16_NoReconnect ==
    /\ [](\A h \in DOMAIN subs :
            subs[h].st = "errored" =>
                /\ status = "success"
                /\ \A g \in DOMAIN subs : subs[g].st # "live")
    /\ [][/\ (\E h \in DOMAIN subs' : Opened(h)) =>
                /\ ProbeResolved /\ ev'.ok
                /\ status # "success" /\ status' = "success"
                /\ \A g \in DOMAIN subs : subs[g].st # "errored"
          /\ (ev'.op \in {"probeDone", "cmdProbeDone"} /\ ~ev'.ok) =>
                /\ ~ProbeStarted
                /\ NProbes' < NProbes
                /\ \A h \in DOMAIN subs' : ~Opened(h)]_vars

\* the listener failed, then an insert failed: status is still success and
\* nothing has subscribed again
C16_Witness ==
    /\ ev.op = "insertDone" /\ ~ev.ok
    /\ status = "success"
    /\ realTimeStatus = "disconnected"
    /\ \E h \in DOMAIN subs : subs[h].st = "errored"

(* C17: at most one listener is not unsubscribed at any time, and it is the
   one the current effect run holds; when a listener is opened every other
   listener has been unsubscribed. *)
Unreleased(ss) == {h \in DOMAIN ss : ss[h].st # "closed"}

C17_OneHandle ==
    /\ [](/\ Cardinality(Unreleased(subs)) <= 1
          /\ \A h \in Unreleased(subs) : unsubscribe = h)
    /\ [][\A h \in DOMAIN subs' :
            Opened(h) =>
                /\ unsubscribe' = h
                /\ Unreleased(subs') = {h}
                /\ Unreleased(subs) = {}]_vars

\* a command's refresh opened a listener again: the one it replaced had
\* delivered a snapshot, the new one has not yet
C17_Witness ==
    /\ ev.op = "cmdProbeDone" /\ ev.ok
    /\ realTimeStatus = "connected"
    /\ Cardinality(Unreleased(subs)) = 1
    /\ \A h \in Unreleased(subs) : subs[h].st = "live" /\ subs[h].pend

(* C18: at most one getDocs call of testConnection is in flight, counting
   the user's probes and the refresh probes of addTestData and
   clearTestData, and the user starts no probe while a command is in
   flight. *)
C18_OneProbeOutstanding ==
    /\ [](NProbes <= 1)
    /\ [][Len(probes') > Len(probes) => cmds = <<>>]_vars

(* C19: whenever realTimeStatus is connected (on a mounted component) a
   listener is live. *)
Live(ss) == {h \in DOMAIN ss : ss[h].st = "live"}

C19_ConnectedImpliesLive ==
    (mounted /\ realTimeStatus = "connected") => Live(subs) # {}

(* C19, as the code has it: realTimeStatus connected implies a live listener
   only while status is success; the turn that takes status out of success
   unsubscribes the listener and leaves realTimeStatus as it was;
   realTimeStatus changes only to connected in a snapshot callback and to
   disconnected in the error callback or when onSnapshot throws, and never
   back to idle. *)
C19_ConnectedSurvivesTeardown ==
    /\ []((mounted /\ status = "success" /\ realTimeStatus = "connected") =>
            Live(subs) # {})
    /\ [][/\ (status = "success" /\ status' # "success") =>
                /\ realTimeStatus' = realTimeStatus
                /\ Live(subs') = {}
          /\ realTimeStatus' # realTimeStatus =>
                \/ ev'.op = "tick" /\ realTimeStatus' = "connected"
                \/ /\ realTimeStatus' = "disconnected"
                   /\ ev'.op = "subError" \/ ev'.threw]_vars

\* a probe was started after the listener had delivered a snapshot
C19_Witness ==
    /\ mounted
    /\ ev.op = "clickTest"
    /\ status = "testing"
    /\ realTimeStatus = "connected"
    /\ Live(subs) = {}

(* C20: when no command and no probe is in flight, status is success and
   the live listener has delivered every snapshot owed to it, the record
   sequence is the content of the store. *)
C20_DisplayMatchesStore ==
    (/\ mounted
     /\ cmds = <<>> /\ probes = <<>>
     /\ status = "success"
     /\ Live(subs) # {}
     /\ \A h \in Live(subs) : ~subs[h].pend)
        => testProjects = ToProjects(store)

====
